---- MODULE Spec2Model ----
(***************************************************************************)
(* diffgraph: translation of unified-diff hunks into tree-sitter           *)
(* InputEdit records (parser.rs), the run over the files of a patch        *)
(* (parser.rs try_parse_patch, graph.rs DiffGraph::create) and the         *)
(* cursor traversal that folds syntax trees into a graph (graph.rs).       *)
(*                                                                         *)
(* Three specifications share the variables:                               *)
(*   Spec      Diff::from_patch_file on one file, one loop iteration       *)
(*             (hunk, diff line) per step;                                 *)
(*   SpecGraph DiffGraph::create_graph_from_diffs, one TreeIterator::next  *)
(*             call per step;                                              *)
(*   SpecRun   DiffGraph::create / try_parse_patch over the files of a     *)
(*             patch, one file per step.                                   *)
(***************************************************************************)
EXTENDS Integers, Sequences, FiniteSets, TLC

\* ------------------------------------------------------------------ bounds
\* most lines of a sampled source file
MaxLines == 4
\* most diff lines of one patched file
MaxEntries == 4
\* most hunks of one patched file
MaxHunks == 2
\* most nodes of the syntax tree of a translated file
MaxFileNodes == 2
\* most nodes of a syntax tree folded into the graph in SpecGraph
MaxNodes == 4
\* most Diffs folded into the graph in SpecGraph
MaxDiffs == 2
\* most files of a patch in SpecRun
MaxFiles == 2
\* most entries of a sampled grammar catalog
MaxCatalog == 3
\* most calls of next made on a TreeIterator after it returned None
MaxIdleCalls == 2

\* ------------------------------------------------------------ Option, Vec
\* Option<T>: None is the empty sequence, Some(x) the one-element sequence
None == << >>
Some(x) == << x >>
IsSome(o) == Len(o) = 1
Unwrap(o) == o[1]

\* Vec::get / slice::get with Rust's 0-based index
VecGet(v, i) == IF i < Len(v) THEN Some(v[i + 1]) ELSE None

\* Vec::last
VecLast(v) == IF Len(v) > 0 THEN Some(v[Len(v)]) ELSE None

\* ------------------------------------------------------------------ text
\* a string is a sequence of chars; char::len_utf8
Utf8Len(c) == IF c = "U+00E9" THEN 2 ELSE 1

RECURSIVE StrLen(_)
\* str::len: the length in bytes
StrLen(s) == IF s = << >> THEN 0 ELSE Utf8Len(Head(s)) + StrLen(Tail(s))

\* str::chars().count()
CharCount(s) == Len(s)

\* str::lines drops one "\r" before the "\n" that ends a line
StripCr(s) == IF Len(s) > 0 /\ s[Len(s)] = "\r" THEN SubSeq(s, 1, Len(s) - 1) ELSE s

RECURSIVE SplitLines(_, _, _)
SplitLines(content, cur, acc) ==
    IF content = << >>
    THEN IF cur = << >> THEN acc ELSE Append(acc, cur)
    ELSE IF Head(content) = "\n"
         THEN SplitLines(Tail(content), << >>, Append(acc, StripCr(cur)))
         ELSE SplitLines(Tail(content), Append(cur, Head(content)), acc)

\* str::lines: the lines of a text, line endings removed, the last one optional
StrLines(content) == SplitLines(content, << >>, << >>)

RECURSIVE JoinLines(_)
\* a text file written line by line, each line ended by "\n"
JoinLines(ls) == IF ls = << >> THEN << >> ELSE Head(ls) \o << "\n" >> \o JoinLines(Tail(ls))

\* ------------------------------------------------------- LineByteCounter
\* LineByteCounter::new
LbcNew(content) == [byte_count |-> 0, lines |-> StrLines(content), cache |-> << >>]

\* LineByteCounter::get
LbcGet(lbc, line_num) == VecGet(lbc.cache, line_num)

\* LineByteCounter::last_in_cache: (index, byte offset, line)
LbcLastInCache(lbc) ==
    IF IsSome(VecLast(lbc.cache))
    THEN Some(<< Len(lbc.cache) - 1, lbc.cache[Len(lbc.cache)][1], lbc.cache[Len(lbc.cache)][2] >>)
    ELSE None

\* Iterator::next of LineByteCounter: the item and the counter after the call
LbcNext(lbc) ==
    IF lbc.lines = << >>
    THEN [item |-> None, lbc |-> lbc]
    ELSE LET line == Head(lbc.lines)
             item == << lbc.byte_count, line >>
         IN  [item |-> Some(item),
              lbc  |-> [byte_count |-> lbc.byte_count + StrLen(line) + Utf8Len("\n"),
                        lines      |-> Tail(lbc.lines),
                        cache      |-> Append(lbc.cache, item)]]

\* ---------------------------------------------------------- unidiff input
LINE_TYPE_ADDED == "+"
LINE_TYPE_REMOVED == "-"
LINE_TYPE_CONTEXT == " "
LINE_TYPE_NO_NEWLINE == "\\"

\* unidiff::Line as PatchedFile::parse_hunk numbers it: a removed line takes
\* the next source number, an added line the next target number, a context
\* line both, any other line none
ParsedLine(line_type, value, src_no, tgt_no) ==
    [line_type      |-> line_type,
     value          |-> value,
     source_line_no |-> IF line_type \in {LINE_TYPE_REMOVED, LINE_TYPE_CONTEXT}
                        THEN Some(src_no) ELSE None,
     target_line_no |-> IF line_type \in {LINE_TYPE_ADDED, LINE_TYPE_CONTEXT}
                        THEN Some(tgt_no) ELSE None]

\* unidiff::Line::new: a line built by hand carries no line numbers
NewLine(line_type, value) ==
    [line_type |-> line_type, value |-> value,
     source_line_no |-> None, target_line_no |-> None]

\* ------------------------------------------------- Diff::from_patch_file
RECURSIVE IterateQuiet(_, _, _)
\* Iterate, were it to stop silently when the lines run out
IterateQuiet(lbc, item, iterations_to_go) ==
    IF iterations_to_go = 0 \/ ~IsSome(LbcNext(lbc).item)
    THEN [status |-> "ok", item |-> item, lbc |-> lbc]
    ELSE IterateQuiet(LbcNext(lbc).lbc, LbcNext(lbc).item, iterations_to_go - 1)

RECURSIVE Iterate(_, _, _)
\* the loop `for _ in 0..iterations_to_go` over line_byte_counter.next()
Iterate(lbc, item, iterations_to_go) ==
    IF iterations_to_go = 0
    THEN [status |-> "ok", item |-> item, lbc |-> lbc]
    ELSE LET r == LbcNext(lbc)
         IN  IF IsSome(r.item)
             THEN Iterate(r.lbc, r.item, iterations_to_go - 1)
             ELSE [status |-> "err_lines", item |-> None, lbc |-> r.lbc]

\* how many lines to read when the line is not cached; the subtraction is
\* on usize: below zero it panics (overflow checks on) or wraps
IterationsToGo(lbc, last_source_context_line) ==
    IF IsSome(LbcLastInCache(lbc))
    THEN last_source_context_line + 1 - Unwrap(LbcLastInCache(lbc))[1]
    ELSE last_source_context_line + 1

\* the (start_byte, source_line_str) pair of a diff line's source line
LookupLine(lbc, source_line_no, last_source_context_line) ==
    IF IsSome(LbcGet(lbc, source_line_no))
    THEN [status |-> "ok", item |-> LbcGet(lbc, source_line_no), lbc |-> lbc]
    ELSE LET last == LbcLastInCache(lbc)
             item == IF IsSome(last) THEN Some(<< Unwrap(last)[2], Unwrap(last)[3] >>) ELSE None
             iterations_to_go == IterationsToGo(lbc, last_source_context_line)
         IN  IF iterations_to_go < 0
             THEN [status |-> "overflow", item |-> None, lbc |-> lbc]
             ELSE LET r == Iterate(lbc, item, iterations_to_go)
                  IN  IF r.status = "ok" /\ ~IsSome(r.item)
                      THEN [status |-> "err_item", item |-> None, lbc |-> r.lbc]
                      ELSE r

\* MakeEdit, were new_end_byte to be shifted by the length difference of the
\* two texts from old_end_byte's place instead of added to start_byte
MakeEditShifted(line, source_line_no, start_byte, source_line_str, new_end_row) ==
    [start_byte       |-> start_byte,
     old_end_byte     |-> start_byte + StrLen(source_line_str),
     new_end_byte     |-> start_byte + StrLen(line.value) - StrLen(source_line_str),
     start_position   |-> [row |-> source_line_no, column |-> 0],
     old_end_position |-> [row |-> source_line_no, column |-> CharCount(source_line_str)],
     new_end_position |-> [row |-> new_end_row, column |-> CharCount(line.value)]]

\* the InputEdit pushed for a diff line with a source line number
MakeEdit(line, source_line_no, start_byte, source_line_str, new_end_row) ==
    [start_byte       |-> start_byte,
     old_end_byte     |-> start_byte + StrLen(source_line_str),
     new_end_byte     |-> start_byte + StrLen(line.value),
     start_position   |-> [row |-> source_line_no, column |-> 0],
     old_end_position |-> [row |-> source_line_no, column |-> CharCount(source_line_str)],
     new_end_position |-> [row |-> new_end_row, column |-> CharCount(line.value)]]

\* the arm for added and removed lines
ChangeLineStep(tr, line) ==
    IF IsSome(line.source_line_no)
    THEN LET source_line_no == Unwrap(line.source_line_no)
             r == LookupLine(tr.lbc, source_line_no, tr.last_source_context_line)
         IN  IF r.status # "ok"
             THEN [tr EXCEPT !.status = r.status, !.lbc = r.lbc]
             ELSE IF ~IsSome(line.target_line_no)
                     /\ (source_line_no = 0 \/ source_line_no - 1 # tr.last_source_context_line)
                  THEN [tr EXCEPT !.status = "panic_assert", !.lbc = r.lbc]
                  ELSE LET new_end_row == IF IsSome(line.target_line_no)
                                          THEN Unwrap(line.target_line_no)
                                          ELSE source_line_no - 1
                       IN  [tr EXCEPT
                              !.lbc = r.lbc,
                              !.edits = Append(@, MakeEdit(line, source_line_no,
                                                 Unwrap(r.item)[1], Unwrap(r.item)[2], new_end_row)),
                              !.last_source_context_line = source_line_no]
    ELSE tr

\* ContextLineStep, were it to leave last_source_context_line alone
ContextLineStepKeepsLast(tr, line) ==
    IF IsSome(line.source_line_no) THEN tr ELSE [tr EXCEPT !.status = "err_context"]

\* ContextLineStep, were it to skip a context line without a source line number
ContextLineStepSkips(tr, line) ==
    IF IsSome(line.source_line_no)
    THEN [tr EXCEPT !.last_source_context_line = Unwrap(line.source_line_no)]
    ELSE tr

\* the arm for context lines
ContextLineStep(tr, line) ==
    IF IsSome(line.source_line_no)
    THEN [tr EXCEPT !.last_source_context_line = Unwrap(line.source_line_no)]
    ELSE [tr EXCEPT !.status = "err_context"]

\* one iteration of `for line in hunk.lines()`: the match on line_type
LineStep(tr, line) ==
    IF line.line_type \in {LINE_TYPE_ADDED, LINE_TYPE_REMOVED} THEN ChangeLineStep(tr, line)
    ELSE IF line.line_type = LINE_TYPE_CONTEXT THEN ContextLineStep(tr, line)
    ELSE tr

\* the head of one iteration of `for hunk in patch_file.hunks()`
HunkStart(tr, source_start) == [tr EXCEPT !.last_source_context_line = source_start]

\* the locals of from_patch_file once the source file is loaded
TranslatorNew(content) ==
    [lbc |-> LbcNew(content), edits |-> << >>,
     last_source_context_line |-> 0, status |-> "running"]

\* the Err(String) a failed translation returns; a panic returns nothing
StatusError(status) ==
    CASE status = "err_lines"   -> "Line counter could not iterate, ran out of lines"
      [] status = "err_item"    -> "Unable to determine line start byte count"
      [] status = "err_context" -> "Context line in patch requires source line"
      [] OTHER                  -> "panic"

\* ------------------------------------------------- tree_sitter::TreeCursor
\* a syntax tree is its parent vector p: node 1 is the root (p[1] = 0), the
\* parent of a node precedes it, the children of a node are ordered by number

\* the first child of node n, or 0
FirstChild(p, n) ==
    IF \E i \in 1..Len(p) : p[i] = n
    THEN CHOOSE i \in 1..Len(p) : p[i] = n /\ \A j \in 1..Len(p) : p[j] = n => i <= j
    ELSE 0

\* the next sibling of node n, or 0
NextSibling(p, n) ==
    IF \E i \in (n + 1)..Len(p) : p[i] = p[n]
    THEN CHOOSE i \in (n + 1)..Len(p) :
           p[i] = p[n] /\ \A j \in (n + 1)..Len(p) : p[j] = p[n] => i <= j
    ELSE 0

\* TreeCursor::goto_first_child: whether it moved, and where the cursor is
GotoFirstChild(p, w) ==
    IF FirstChild(p, w) # 0 THEN [moved |-> TRUE, walker |-> FirstChild(p, w)]
                            ELSE [moved |-> FALSE, walker |-> w]

\* TreeCursor::goto_next_sibling
GotoNextSibling(p, w) ==
    IF NextSibling(p, w) # 0 THEN [moved |-> TRUE, walker |-> NextSibling(p, w)]
                             ELSE [moved |-> FALSE, walker |-> w]

\* TreeCursor::goto_parent
GotoParent(p, w) ==
    IF p[w] # 0 THEN [moved |-> TRUE, walker |-> p[w]]
                ELSE [moved |-> FALSE, walker |-> w]

\* -------------------------------------------------------------------- Tree
\* a tree_sitter::Tree: its nodes, the byte at which its root ends, and the
\* InputEdits Tree::edit has been called with on it, in order
TreeNew(nodes, end_byte) == [nodes |-> nodes, end_byte |-> end_byte, edited |-> << >>]

\* Tree::edit: the root keeps what lies after the replaced range behind the
\* new end of it; an edit that begins past the end of the root leaves its
\* span alone
TreeEdit(tree, edit) ==
    [tree EXCEPT
       !.end_byte = IF \/ edit.start_byte < @
                       \/ edit.start_byte = @ /\ edit.old_end_byte = edit.start_byte
                    THEN edit.new_end_byte
                         + (IF @ > edit.old_end_byte THEN @ - edit.old_end_byte ELSE 0)
                    ELSE @,
       !.edited = Append(@, edit)]

\* ------------------------------------------------------------ TreeIterator
\* TreeIterator::new: the cursor of tree.walk() stands on the root
TreeIteratorNew(tree) == [tree |-> tree.nodes, walker |-> 1, traversed |-> FALSE]

RECURSIVE Ascend(_, _)
\* the loop of next: up until a parent has a next sibling, or the root is passed
Ascend(p, w) ==
    IF ~GotoParent(p, w).moved
    THEN [walker |-> w, traversed |-> TRUE]
    ELSE IF GotoNextSibling(p, GotoParent(p, w).walker).moved
         THEN [walker |-> GotoNextSibling(p, GotoParent(p, w).walker).walker, traversed |-> FALSE]
         ELSE Ascend(p, GotoParent(p, w).walker)

\* TreeIteratorNext, were the traversed flag not looked at
TreeIteratorNextUnguarded(it) ==
    LET node == it.walker
        child == GotoFirstChild(it.tree, node)
        sibling == GotoNextSibling(it.tree, node)
        up == Ascend(it.tree, node)
    IN  IF child.moved
        THEN [ret |-> Some(node), cb |-> Some(<< node, child.walker >>),
              it |-> [it EXCEPT !.walker = child.walker]]
        ELSE IF sibling.moved
        THEN [ret |-> Some(node), cb |-> Some(<< node, sibling.walker >>),
              it |-> [it EXCEPT !.walker = sibling.walker]]
        ELSE [ret |-> Some(node), cb |-> Some(<< node, up.walker >>),
              it |-> [it EXCEPT !.walker = up.walker, !.traversed = up.traversed]]

\* TreeIteratorNext, were relation_cb left uncalled after the climb that
\* ends the traversal
TreeIteratorNextSilentEnd(it) ==
    IF it.traversed
    THEN [ret |-> None, cb |-> None, it |-> it]
    ELSE LET node == it.walker
             child == GotoFirstChild(it.tree, node)
             sibling == GotoNextSibling(it.tree, node)
             up == Ascend(it.tree, node)
         IN  IF child.moved
             THEN [ret |-> Some(node), cb |-> Some(<< node, child.walker >>),
                   it |-> [it EXCEPT !.walker = child.walker]]
             ELSE IF sibling.moved
             THEN [ret |-> Some(node), cb |-> Some(<< node, sibling.walker >>),
                   it |-> [it EXCEPT !.walker = sibling.walker]]
             ELSE [ret |-> Some(node),
                   cb |-> IF up.traversed THEN None ELSE Some(<< node, up.walker >>),
                   it |-> [it EXCEPT !.walker = up.walker, !.traversed = up.traversed]]

\* TreeIterator::next: the node returned, the (from, to) pair handed to
\* relation_cb, and the iterator after the call
TreeIteratorNext(it) ==
    IF it.traversed
    THEN [ret |-> None, cb |-> None, it |-> it]
    ELSE LET node == it.walker
             child == GotoFirstChild(it.tree, node)
             sibling == GotoNextSibling(it.tree, node)
             up == Ascend(it.tree, node)
         IN  IF child.moved
             THEN [ret |-> Some(node), cb |-> Some(<< node, child.walker >>),
                   it |-> [it EXCEPT !.walker = child.walker]]
             ELSE IF sibling.moved
             THEN [ret |-> Some(node), cb |-> Some(<< node, sibling.walker >>),
                   it |-> [it EXCEPT !.walker = sibling.walker]]
             ELSE [ret |-> Some(node), cb |-> Some(<< node, up.walker >>),
                   it |-> [it EXCEPT !.walker = up.walker, !.traversed = up.traversed]]

\* --------------------------------------------------------------- DiffGraph
\* Node::id of node n of the tree of the d-th Diff (counted from 0): the
\* trees are alive together, so nodes of different trees have different ids
NodeId(d, n) == d * (MaxNodes + MaxFileNodes + 1) + n

\* NodeInfo::from_ts_node
NodeInfo(d, n) == [id |-> NodeId(d, n)]

\* Edge::from_ts_nodes
EdgeFromTsNodes(d, from, to) == [from |-> NodeInfo(d, from), to |-> NodeInfo(d, to)]

\* DiGraphMap::new
GraphNew == [nodes |-> {}, edges |-> << >>]

\* DiGraphMap::add_node
AddNode(g, id) == [g EXCEPT !.nodes = @ \cup {id}]

\* DiGraphMap::add_edge: the nodes are added if missing, the weight replaced
AddEdge(g, a, b, weight) ==
    [nodes |-> g.nodes \cup {a, b},
     edges |-> [k \in DOMAIN g.edges \cup { << a, b >> } |->
                  IF k = << a, b >> THEN weight ELSE g.edges[k]]]

\* RelationCb, were the two snapshots of the Edge to be taken the wrong way round
RelationCbSwapped(g, d, from, to) ==
    AddEdge(AddNode(AddNode(g, NodeId(d, from)), NodeId(d, to)),
            NodeId(d, from), NodeId(d, to), EdgeFromTsNodes(d, to, from))

\* the relation_cb closure of create_graph_from_diffs
RelationCb(g, d, from, to) ==
    AddEdge(AddNode(AddNode(g, NodeId(d, from)), NodeId(d, to)),
            NodeId(d, from), NodeId(d, to), EdgeFromTsNodes(d, from, to))

\* ------------------------------------------------------------ sample data
\* all sequences over S of length at most n
BoundedSeq(S, n) == UNION { [1..k -> S] : k \in 0..n }

\* the literal text of sampled removed lines
Values == { << "b" >>, << "b", "2" >> }

\* the source text "a\nb\nc\n"
ExampleSource == << "a", "\n", "b", "\n", "c", "\n" >>

\* the long line of a sampled source file (3 bytes in 2 chars), the short one
LongText == << "U+00E9", "2" >>
ShortText == << "b" >>

\* lines of the sampled source files: at most MaxLines lines, short ones
\* but for the last, which may be the long one
SampleLines ==
    { ls \in BoundedSeq({ShortText, LongText}, MaxLines) :
        \A i \in 1..(Len(ls) - 1) : ls[i] = ShortText }

\* contents of the on-disk source file
SampleSources == { JoinLines(ls) : ls \in SampleLines } \cup { ExampleSource }

\* a syntax tree is its parent vector: node 1 is the root, the parent of a
\* node precedes it, and the children of a node are ordered by number
TreesUpTo(m) == UNION { { p \in [1..n -> 0..n] : /\ p[1] = 0
                                                 /\ \A i \in 2..n : p[i] \in 1..(i - 1) }
                        : n \in 1..m }

\* the trees the parser returns in SpecRun: a root alone, and a chain of
\* MaxFileNodes nodes
FileTrees == { << 0 >>, [n \in 1..MaxFileNodes |-> n - 1] }

\* the tree the parser returns in Spec, where its shape plays no part
SpecTrees == { << 0 >> }

\* ------------------------------------------------------------------ state
VARIABLES
    pc,          \* where the modelled call stands
    source,      \* from_patch_file: contents of the source file
    tr,          \* from_patch_file: line_byte_counter, edits, last_source_context_line
    hunk,        \* from_patch_file: the hunk being iterated
    line,        \* from_patch_file: the diff line being matched
    src_no,      \* unidiff: next source line number of the hunk
    tgt_no,      \* unidiff: next target line number of the hunk
    hunkLines,   \* the lines of the current hunk iterated so far
    hunkBase,    \* length of edits when the current hunk began
    nEntries,    \* diff lines iterated in the file
    nHunks,      \* hunks iterated in the file
    ordered,     \* whether each hunk began at or after the line the one before ended at
    result,      \* what the modelled call returned
    diffs,       \* the Vec<Diff> of try_parse_patch / create_graph_from_diffs
    graph,       \* create_graph_from_diffs: the DiGraphMap
    dfs,         \* create_graph_from_diffs: the TreeIterator
    di,          \* create_graph_from_diffs: Diffs traversed so far
    c,           \* create_graph_from_diffs: the node counter
    visited,     \* the node ids the TreeIterators returned, in order
    returned,    \* SpecIter: what each call of next returned, in order
    emitted,     \* the (from, to) id pairs handed to relation_cb, in order
    params,      \* DiffGraph::create: the DiffGraphParams flags
    attempts,    \* try_parse_patch: what each from_patch_file call returned
    diff_tree,   \* try_parse_patch: what the last try_apply_edits call returned
    catalog,     \* ParserConfig::parsers: the URLs of the grammar catalog
    inst,        \* try_install_languages: the loop, the file system, the clones made
    ts_config,   \* Grammars::ts_config: the parser directories
    loader,      \* Grammars::loader: the file types of the configurations it found
    source_file_path,  \* from_patch_file: the path of the file on disk
    lang         \* from_patch_file: what try_get_language returned

\* the variables of from_patch_file
tvars == << source, tr, hunk, line, src_no, tgt_no, hunkLines, hunkBase, nEntries, nHunks, ordered >>

\* the variables of create_graph_from_diffs
gvars == << graph, dfs, di, c, visited, emitted, returned >>

\* the variables of try_parse_patch
rvars == << params, attempts, diff_tree >>

\* the variables of try_install_languages
ivars == << catalog, inst, ts_config, loader >>

\* the variables of language resolution in from_patch_file
lvars == << source_file_path, lang >>

vars == << pc, tvars, result, diffs, gvars, rvars, ivars, lvars >>

NoLine == NewLine("", << >>)
NoResult == [kind |-> "None"]
Ok(v) == [kind |-> "Ok", value |-> v]
Err(e) == [kind |-> "Err", error |-> e]
Panic == [kind |-> "Panic"]

\* what a translation that stopped with `status` hands to its caller
StatusResult(status) == IF StatusError(status) = "panic" THEN Panic ELSE Err(StatusError(status))

\* ----------------------------------------------------------------- Grammars
\* a URL text is a sequence of tokens: a scheme ("https:", "mailto:"), then
\* for a special scheme "//" and the host, then the path, where "/" is a
\* token of its own; a path on disk is the sequence of its components
SpecialSchemes == { "https:" }
Schemes == SpecialSchemes \cup { "mailto:" }

\* Url::parse on the three shapes of text sampled: no scheme, a special
\* scheme with a host, a scheme whose rest is opaque
UrlParse(text) ==
    IF text = << >> \/ Head(text) \notin Schemes
    THEN Err("relative URL without a base")
    ELSE IF Head(text) \in SpecialSchemes
    THEN IF Len(text) >= 3 /\ text[2] = "//" /\ text[3] # "/"
         THEN Ok([cannot_be_a_base |-> FALSE,
                  path |-> IF Len(text) > 3 THEN SubSeq(text, 4, Len(text)) ELSE << "/" >>])
         ELSE Err("empty host")
    ELSE Ok([cannot_be_a_base |-> TRUE, path |-> Tail(text)])

RECURSIVE SplitSegments(_, _, _)
\* str::split('/'): the pieces between the separators, empty ones included
SplitSegments(rest, cur, acc) ==
    IF rest = << >> THEN Append(acc, cur)
    ELSE IF Head(rest) = "/" THEN SplitSegments(Tail(rest), << >>, Append(acc, cur))
    ELSE SplitSegments(Tail(rest), Append(cur, Head(rest)), acc)

\* Url::path_segments: None for a cannot-be-a-base URL, else the path after
\* its leading "/" split at "/"
PathSegments(url) ==
    IF url.cannot_be_a_base THEN None
    ELSE Some(SplitSegments(Tail(url.path), << >>, << >>))

\* Path::join: joining the empty string names the same directory
PathJoin(path, segment) == IF segment = << >> THEN path ELSE Append(path, segment)

\* get_default_parsers_dir, when dirs::config_dir is known
DefaultParsersDir == << "tree-sitter", "parsers" >>

\* try_get_parser_repo_path, parsers_dir being what get_default_parsers_dir returns
TryGetParserRepoPath(parsers_dir, parser_url) ==
    IF ~IsSome(parsers_dir) THEN Err("Unable to determine default parser path.")
    ELSE LET url == UrlParse(parser_url)
         IN  IF url.kind = "Err" THEN url
             ELSE LET segments == PathSegments(url.value)
                  IN  IF ~IsSome(segments)
                      THEN Err("Unable to determine path for repository URL")
                      ELSE IF ~IsSome(VecLast(Unwrap(segments)))
                      THEN Err("Unable to determine last path segment for repository URL")
                      ELSE Ok(PathJoin(Unwrap(parsers_dir), Unwrap(VecLast(Unwrap(segments)))))

\* what running `git clone url dir` can come to: success, a failure that
\* wrote to stderr, one that did not, or no git to execute
CloneOutcomes == { "ok", "stderr", "stdout", "no_git" }

\* clone_repo_in_dir: what it returns
CloneRepoInDir(outcome) ==
    CASE outcome = "ok"     -> Ok("()")
      [] outcome = "stderr" -> Err("stderr of git clone")
      [] outcome = "stdout" -> Err("Unable to execute git clone command")
      [] OTHER              -> Panic

\* the file system after `git clone url dir`: a clone that succeeds creates
\* dir and the directories above it, one that fails leaves nothing behind
AfterClone(fs, parsers_dir, dir, outcome) ==
    IF outcome = "ok" THEN fs \cup { dir, parsers_dir } ELSE fs

\* Path::exists
Exists(fs, path) == path \in fs

\* try_install_languages before its loop: i entries walked, the file system
\* fs, the clones attempted so far, nothing returned yet
InstallerNew(parsers_dir, fs) ==
    [parsers_dir |-> parsers_dir, fs |-> fs, i |-> 0, clones |-> << >>, result |-> NoResult]

\* InstallStep, were a failed clone to be passed over and the walk to go on
InstallStepGoesOn(st, parser_url, outcome) ==
    LET repo_path == TryGetParserRepoPath(st.parsers_dir, parser_url)
    IN  IF repo_path.kind = "Err"
        THEN [st EXCEPT !.i = @ + 1, !.result = repo_path]
        ELSE IF ~Exists(st.fs, repo_path.value)
        THEN [st EXCEPT
                !.i = @ + 1,
                !.fs = AfterClone(@, Unwrap(st.parsers_dir), repo_path.value, outcome),
                !.clones = Append(@, [entry |-> st.i + 1, url |-> parser_url,
                                      dir |-> repo_path.value, outcome |-> outcome])]
        ELSE [st EXCEPT !.i = @ + 1]

\* one iteration of `for parser_url in self.parser_config.parsers.iter()`;
\* outcome is what git clone comes to if it is run
InstallStep(st, parser_url, outcome) ==
    LET repo_path == TryGetParserRepoPath(st.parsers_dir, parser_url)
    IN  IF repo_path.kind = "Err"
        THEN [st EXCEPT !.i = @ + 1, !.result = repo_path]
        ELSE IF ~Exists(st.fs, repo_path.value)
        THEN [st EXCEPT
                !.i = @ + 1,
                !.fs = AfterClone(@, Unwrap(st.parsers_dir), repo_path.value, outcome),
                !.clones = Append(@, [entry |-> st.i + 1, url |-> parser_url,
                                      dir |-> repo_path.value, outcome |-> outcome]),
                !.result = IF outcome = "ok" THEN st.result ELSE CloneRepoInDir(outcome)]
        ELSE [st EXCEPT !.i = @ + 1]

\* ------------------------------------------------------ language resolution
\* a file path is the sequence of its components, and a component a sequence
\* of tokens where "." is a token of its own

\* get_fs_file_path: the path of the patch without a leading "a/" or "b/"
GetFsFilePath(patch_file_path) ==
    IF Len(patch_file_path) >= 2 /\ Head(patch_file_path) = << "a" >> THEN Tail(patch_file_path)
    ELSE IF Len(patch_file_path) >= 2 /\ Head(patch_file_path) = << "b" >> THEN Tail(patch_file_path)
    ELSE patch_file_path

\* Path::file_name
FileName(p) == VecLast(p)

\* Path::extension: what follows the last "." of the file name, if a "."
\* there is and the name does not begin with it
Extension(p) ==
    IF ~IsSome(FileName(p)) THEN None
    ELSE LET name == Unwrap(FileName(p))
             dots == { k \in 1..Len(name) : name[k] = "." }
         IN  IF dots = {} THEN None
             ELSE LET last == CHOOSE k \in dots : \A j \in dots : j <= k
                  IN  IF last = 1 THEN None ELSE Some(SubSeq(name, last + 1, Len(name)))

\* the file types of the language configurations a Loader can find, those
\* whose compiled grammar loads and those whose grammar fails to load
LoadableFileTypes == { << "rs" >>, << "Makefile" >> }
UnloadableFileTypes == { << "md" >> }

\* the file types the grammar repository in a directory of this name declares
GrammarFileTypes(name) ==
    CASE name = << "tree-sitter-rust" >>     -> { << "rs" >> }
      [] name = << "tree-sitter-make" >>     -> { << "Makefile" >> }
      [] name = << "tree-sitter-markdown" >> -> { << "md" >> }
      [] OTHER                               -> {}

\* Loader::find_all_languages: the configurations of the grammar
\* repositories that stand in one of the parser directories
FindAllLanguages(parser_directories, fs) ==
    UNION { GrammarFileTypes(d[Len(d)]) :
              d \in { e \in fs : \E i \in 1..Len(parser_directories) :
                                   /\ Len(e) = Len(parser_directories[i]) + 1
                                   /\ SubSeq(e, 1, Len(e) - 1) = parser_directories[i] } }

\* LanguageConfigurationForFileName, were the parser directories searched
\* again at each lookup
LanguageConfigurationSearchesAgain(p) ==
    LET known == FindAllLanguages(ts_config, inst.fs)
        by_name == IF IsSome(FileName(p)) /\ Unwrap(FileName(p)) \in known
                   THEN FileName(p) ELSE None
        by_ext == IF IsSome(Extension(p)) /\ Unwrap(Extension(p)) \in known
                  THEN Extension(p) ELSE None
        found == IF IsSome(by_name) THEN by_name ELSE by_ext
    IN  IF ~IsSome(found) THEN Ok(None)
        ELSE IF Unwrap(found) \in UnloadableFileTypes THEN Err("language could not be loaded")
        ELSE Ok(Some([language |-> Unwrap(found), configuration |-> Unwrap(found)]))

\* Loader::language_configuration_for_file_name: the configuration found by
\* the file name, else by the extension, and its language loaded; None when
\* neither is a known file type
LanguageConfigurationForFileName(p) ==
    LET known == loader
        by_name == IF IsSome(FileName(p)) /\ Unwrap(FileName(p)) \in known
                   THEN FileName(p) ELSE None
        by_ext == IF IsSome(Extension(p)) /\ Unwrap(Extension(p)) \in known
                  THEN Extension(p) ELSE None
        found == IF IsSome(by_name) THEN by_name ELSE by_ext
    IN  IF ~IsSome(found) THEN Ok(None)
        ELSE IF Unwrap(found) \in UnloadableFileTypes THEN Err("language could not be loaded")
        ELSE Ok(Some([language |-> Unwrap(found), configuration |-> Unwrap(found)]))

\* Grammars::try_get_language
TryGetLanguage(p) ==
    LET r == LanguageConfigurationForFileName(p)
    IN  IF r.kind = "Err" THEN r
        ELSE IF IsSome(r.value) THEN Ok(Some(Unwrap(r.value).language))
        ELSE Ok(None)

\* ------------------------------------- Spec: from_patch_file on one file
Init ==
    /\ pc = "load"
    /\ source = << >>
    /\ tr = TranslatorNew(<< >>)
    /\ hunk = [source_start |-> 0]
    /\ line = NoLine
    /\ src_no = 1
    /\ tgt_no = 1
    /\ hunkLines = << >>
    /\ hunkBase = 0
    /\ nEntries = 0
    /\ nHunks = 0
    /\ ordered = TRUE
    /\ result = NoResult
    /\ diffs = << >>
    /\ graph = GraphNew
    /\ dfs = TreeIteratorNew(TreeNew(<< 0 >>, 0))
    /\ di = 0
    /\ c = 0
    /\ visited = << >>
    /\ returned = << >>
    /\ emitted = << >>
    /\ params = [save_default_if_missing |-> FALSE, install_lang_if_missing |-> FALSE]
    /\ attempts = << >>
    /\ diff_tree = NoResult
    /\ catalog = << >>
    /\ ts_config = << DefaultParsersDir >>
    /\ loader = LoadableFileTypes \cup UnloadableFileTypes
    /\ inst = InstallerNew(None, {})
    /\ source_file_path = << >>
    /\ lang = NoResult

\* try_load_file_from succeeds: the locals are set up
LoadSource ==
    /\ pc = "load"
    /\ \E content \in SampleSources :
         /\ source' = content
         /\ tr' = TranslatorNew(content)
    /\ pc' = "hunks"
    /\ UNCHANGED << hunk, line, src_no, tgt_no, hunkLines, hunkBase, nEntries, nHunks, result >>
    /\ UNCHANGED << diffs, gvars, rvars, ivars, lvars >>
    /\ UNCHANGED ordered

\* try_load_file_from fails: the path does not exist or is no file
LoadSourceFails ==
    /\ pc = "load"
    /\ pc' = "done"
    /\ result' = Err("does not exist")
    /\ UNCHANGED << source, tr, hunk, line, src_no, tgt_no, hunkLines, hunkBase, nEntries, nHunks >>
    /\ UNCHANGED << diffs, gvars, rvars, ivars, lvars >>
    /\ UNCHANGED ordered

\* the next hunk of the file; PatchSet::parse takes the hunks as they come,
\* so it may start before the line the last one ended at
NextHunk ==
    /\ pc = "hunks"
    /\ nHunks < MaxHunks
    /\ \E source_start \in 1..(MaxLines + 1) :
         /\ hunk' = [source_start |-> source_start]
         /\ tr' = HunkStart(tr, source_start)
         /\ src_no' = source_start
         /\ tgt_no' = source_start
    /\ hunkLines' = << >>
    /\ hunkBase' = Len(tr.edits)
    /\ nHunks' = nHunks + 1
    /\ ordered' = (ordered /\ hunk'.source_start >= src_no)
    /\ pc' = "lines"
    /\ UNCHANGED << source, line, nEntries, result >>
    /\ UNCHANGED << diffs, gvars, rvars, ivars, lvars >>

\* the text of a context line: that of the source line it stands for
ContextText(n) ==
    IF n >= 1 /\ n <= Len(StrLines(source)) THEN StrLines(source)[n] ELSE ShortText

\* the diff lines a hunk can continue with: numbered as unidiff parses them,
\* or a context line built without numbers
NextLines ==
    { ParsedLine(LINE_TYPE_REMOVED, v, src_no, tgt_no) : v \in Values }
    \cup { ParsedLine(LINE_TYPE_ADDED, << "b", "2" >>, src_no, tgt_no),
           ParsedLine(LINE_TYPE_CONTEXT, ContextText(src_no), src_no, tgt_no),
           ParsedLine(LINE_TYPE_NO_NEWLINE, << >>, src_no, tgt_no),
           NewLine(LINE_TYPE_CONTEXT, << "b" >>) }

\* one diff line of the hunk is matched
NextLine ==
    /\ pc = "lines"
    /\ nEntries < MaxEntries
    /\ \E l \in NextLines :
         /\ line' = l
         /\ tr' = LineStep(tr, l)
         /\ src_no' = IF IsSome(l.source_line_no) THEN src_no + 1 ELSE src_no
         /\ tgt_no' = IF IsSome(l.target_line_no) THEN tgt_no + 1 ELSE tgt_no
         /\ hunkLines' = Append(hunkLines, l)
    /\ nEntries' = nEntries + 1
    /\ IF tr'.status = "running"
       THEN pc' = "lines" /\ result' = result
       ELSE pc' = "done" /\ result' = StatusResult(tr'.status)
    /\ UNCHANGED << source, hunk, hunkBase, nHunks >>
    /\ UNCHANGED << diffs, gvars, rvars, ivars, lvars >>
    /\ UNCHANGED ordered

\* the hunk has no more lines
EndHunk ==
    /\ pc = "lines"
    /\ hunkLines # << >>
    /\ pc' = "hunks"
    /\ UNCHANGED << source, tr, hunk, line, src_no, tgt_no, hunkLines, hunkBase, nEntries, nHunks, result >>
    /\ UNCHANGED << diffs, gvars, rvars, ivars, lvars >>
    /\ UNCHANGED ordered

\* what language resolution and parsing can come to
ParseOutcomes == { "lang_err", "no_lang", "parse_err", "parse_none", "tree" }

\* the Diff or the error from_patch_file returns after the hunk loop; the
\* root of the tree parser.parse returns ends where the source ends
BuildDiff(content, edits, outcome, tree) ==
    CASE outcome = "lang_err"   -> Err("language configuration error")
      [] outcome = "no_lang"    -> Err("Unable to determine language")
      [] outcome = "parse_err"  -> Err("set_language error")
      [] outcome = "parse_none" -> Err("Unable to parse patch file")
      [] OTHER                  -> Ok([source |-> content, edits |-> edits,
                                       tree |-> TreeNew(tree, StrLen(content))])

\* what try_parse_source_code can come to
ParserOutcomes == ParseOutcomes \ { "lang_err", "no_lang" }

\* FinishOutcome, were a file without a language to go to the parser all the same
FinishOutcomeParsesAnyway(language, parse_outcome) ==
    IF language.kind = "Err" THEN "lang_err" ELSE parse_outcome

\* the outcome of from_patch_file after the hunk loop: the `?` on
\* try_get_language, then the parser if there is a language
FinishOutcome(language, parse_outcome) ==
    IF language.kind = "Err" THEN "lang_err"
    ELSE IF IsSome(language.value) THEN parse_outcome
    ELSE "no_lang"

\* the paths of sampled patched files: a Rust file, a text file, a Markdown file
SamplePatchPaths ==
    { << << "a" >>, << "main", ".", "rs" >> >>,
      << << "b" >>, << "notes", ".", "txt" >> >>,
      << << "a" >>, << "README", ".", "md" >> >> }

\* those of SpecRun: a Makefile and a file whose name is ".rs" besides
SampleRunPaths ==
    SamplePatchPaths \cup { << << "Makefile" >> >>, << << "a" >>, << ".", "rs" >> >> }

\* the file has no more hunks: resolve the language, parse, return
Finish ==
    /\ pc = "hunks"
    /\ \E patch_file_path \in SamplePatchPaths, parse_outcome \in ParserOutcomes, tree \in SpecTrees :
         /\ parse_outcome # "tree" => tree = << 0 >>
         /\ source_file_path' = GetFsFilePath(patch_file_path)
         /\ lang' = TryGetLanguage(source_file_path')
         /\ result' = BuildDiff(source, tr.edits, FinishOutcome(lang', parse_outcome), tree)
    /\ pc' = "done"
    /\ UNCHANGED << source, tr, hunk, line, src_no, tgt_no, hunkLines, hunkBase, nEntries, nHunks >>
    /\ UNCHANGED << diffs, gvars, rvars, ivars >>
    /\ UNCHANGED ordered

Next ==
    \/ LoadSource
    \/ LoadSourceFails
    \/ NextHunk
    \/ NextLine
    \/ EndHunk
    \/ Finish

Spec == Init /\ [][Next]_vars

\* ------------------------------ SpecGraph: create_graph_from_diffs, stepwise
\* a Diff as create_graph_from_diffs sees it
DiffOfTree(tree) == [source |-> << >>, edits |-> << >>, tree |-> TreeNew(tree, 0)]

\* one call of dfs.next() in `while dfs.next().is_some()`: the graph and the
\* iterator after it, and what it returned
DfsStep(g, d, it) ==
    LET r == TreeIteratorNext(it)
    IN  [graph |-> IF IsSome(r.cb)
                   THEN RelationCb(g, d, Unwrap(r.cb)[1], Unwrap(r.cb)[2])
                   ELSE g,
         it    |-> r.it,
         ret   |-> r.ret,
         cb    |-> r.cb]

\* the trees of the sampled Diff lists: at most MaxDiffs trees of at most
\* MaxNodes nodes, at most one of them with more than MaxFileNodes nodes
SampleForests ==
    { ts \in BoundedSeq(TreesUpTo(MaxNodes), MaxDiffs) :
        Cardinality({ i \in 1..Len(ts) : Len(ts[i]) > MaxFileNodes }) <= 1 }

InitGraph ==
    /\ pc = "graph_for"
    /\ diffs \in { [i \in 1..Len(ts) |-> DiffOfTree(ts[i])] : ts \in SampleForests }
    /\ graph = GraphNew
    /\ dfs = TreeIteratorNew(TreeNew(<< 0 >>, 0))
    /\ di = 0
    /\ c = 0
    /\ visited = << >>
    /\ returned = << >>
    /\ emitted = << >>
    /\ result = NoResult
    /\ source = << >>
    /\ tr = TranslatorNew(<< >>)
    /\ hunk = [source_start |-> 0]
    /\ line = NoLine
    /\ src_no = 1
    /\ tgt_no = 1
    /\ hunkLines = << >>
    /\ hunkBase = 0
    /\ nEntries = 0
    /\ nHunks = 0
    /\ ordered = TRUE
    /\ params = [save_default_if_missing |-> FALSE, install_lang_if_missing |-> FALSE]
    /\ attempts = << >>
    /\ diff_tree = NoResult
    /\ catalog = << >>
    /\ ts_config = << >>
    /\ loader = {}
    /\ inst = InstallerNew(None, {})
    /\ source_file_path = << >>
    /\ lang = NoResult

\* `for d in diffs`: the TreeIterator of the next Diff's tree, the counter at 0
GraphNewIterator ==
    /\ pc = "graph_for"
    /\ di < Len(diffs)
    /\ dfs' = TreeIteratorNew(diffs[di + 1].tree)
    /\ c' = 0
    /\ pc' = "graph_while"
    /\ UNCHANGED << graph, di, visited, emitted, returned, result, diffs, tvars, rvars, ivars, lvars >>

\* one test of `while dfs.next().is_some()`, and the loop body or the exit
GraphDfsNext ==
    /\ pc = "graph_while"
    /\ LET r == DfsStep(graph, di, dfs)
       IN  /\ graph' = r.graph
           /\ dfs' = r.it
           /\ emitted' = IF IsSome(r.cb)
                         THEN Append(emitted, << NodeId(di, Unwrap(r.cb)[1]),
                                                 NodeId(di, Unwrap(r.cb)[2]) >>)
                         ELSE emitted
           /\ IF IsSome(r.ret)
              THEN /\ c' = c + 1
                   /\ visited' = Append(visited, NodeId(di, Unwrap(r.ret)))
                   /\ pc' = "graph_while"
                   /\ di' = di
              ELSE /\ c' = c
                   /\ visited' = visited
                   /\ pc' = "graph_for"
                   /\ di' = di + 1
    /\ UNCHANGED << returned, result, diffs, tvars, rvars, ivars, lvars >>

\* every Diff is traversed: Ok(graph)
GraphReturn ==
    /\ pc = "graph_for"
    /\ di = Len(diffs)
    /\ result' = Ok(graph)
    /\ pc' = "done"
    /\ UNCHANGED << diffs, gvars, tvars, rvars, ivars, lvars >>

NextGraph ==
    \/ GraphNewIterator
    \/ GraphDfsNext
    \/ GraphReturn

SpecGraph == InitGraph /\ [][NextGraph]_vars

\* ------------------------- SpecIter: one TreeIterator, called at will
\* a TreeIterator made as create_graph_from_diffs makes it, on the tree of
\* one Diff
InitIter ==
    /\ pc = "iter"
    /\ diffs \in { << DiffOfTree(tree) >> : tree \in TreesUpTo(MaxNodes) }
    /\ graph = GraphNew
    /\ dfs = TreeIteratorNew(diffs[1].tree)
    /\ di = 0
    /\ c = 0
    /\ visited = << >>
    /\ returned = << >>
    /\ emitted = << >>
    /\ result = NoResult
    /\ source = << >>
    /\ tr = TranslatorNew(<< >>)
    /\ hunk = [source_start |-> 0]
    /\ line = NoLine
    /\ src_no = 1
    /\ tgt_no = 1
    /\ hunkLines = << >>
    /\ hunkBase = 0
    /\ nEntries = 0
    /\ nHunks = 0
    /\ ordered = TRUE
    /\ params = [save_default_if_missing |-> FALSE, install_lang_if_missing |-> FALSE]
    /\ attempts = << >>
    /\ diff_tree = NoResult
    /\ catalog = << >>
    /\ ts_config = << >>
    /\ loader = {}
    /\ inst = InstallerNew(None, {})
    /\ source_file_path = << >>
    /\ lang = NoResult

\* one call of dfs.next(), whatever the calls before it returned
IterNext ==
    /\ pc = "iter"
    /\ Len(returned) - Len(visited) < MaxIdleCalls
    /\ LET r == DfsStep(graph, di, dfs)
       IN  /\ graph' = r.graph
           /\ dfs' = r.it
           /\ returned' = Append(returned, r.ret)
           /\ emitted' = IF IsSome(r.cb)
                         THEN Append(emitted, << NodeId(di, Unwrap(r.cb)[1]),
                                                 NodeId(di, Unwrap(r.cb)[2]) >>)
                         ELSE emitted
           /\ visited' = IF IsSome(r.ret)
                         THEN Append(visited, NodeId(di, Unwrap(r.ret)))
                         ELSE visited
           /\ c' = IF IsSome(r.ret) THEN c + 1 ELSE c
    /\ UNCHANGED << pc, di, result, diffs, tvars, rvars, ivars, lvars >>

\* the TreeIterator is dropped
IterDrop ==
    /\ pc = "iter"
    /\ pc' = "done"
    /\ UNCHANGED << result, diffs, gvars, tvars, rvars, ivars, lvars >>

NextIter ==
    \/ IterNext
    \/ IterDrop

SpecIter == InitIter /\ [][NextIter]_vars

\* --------------------- SpecInstall: try_install_languages, entry by entry
\* texts of catalog entries: three of the built-in catalog (two of them with
\* the same final path segment), one of it with a "/" at its end, a text
\* without a scheme, and one whose scheme has no path segments
UrlRust == << "https:", "//", "github.com", "/", "tree-sitter", "/", "tree-sitter-rust" >>
UrlMarkdownIkatyang == << "https:", "//", "github.com", "/", "ikatyang", "/", "tree-sitter-markdown" >>
UrlMarkdownMDeiml == << "https:", "//", "github.com", "/", "MDeiml", "/", "tree-sitter-markdown" >>
UrlErlang == << "https:", "//", "github.com", "/", "WhatsApp", "/", "tree-sitter-erlang", "/" >>
UrlNoScheme == << "tree-sitter-rust" >>
UrlMailto == << "mailto:", "parsers@example.com" >>

SampleUrls == { UrlRust, UrlMarkdownIkatyang, UrlMarkdownMDeiml, UrlErlang, UrlNoScheme, UrlMailto }

\* the sampled catalogs: at most MaxCatalog entries
SampleCatalogs == BoundedSeq(SampleUrls, MaxCatalog)

\* what the disk holds before the call: nothing, the empty parsers
\* directory, or the parsers directory with the clone of one grammar
SampleFileSystems ==
    { {}, { DefaultParsersDir },
      { DefaultParsersDir, Append(DefaultParsersDir, << "tree-sitter-rust" >>) } }

InitInstall ==
    /\ pc = "install_for"
    /\ catalog \in SampleCatalogs
    /\ ts_config = << >>
    /\ loader = {}
    /\ inst \in { InstallerNew(Some(DefaultParsersDir), fs) : fs \in SampleFileSystems }
                \cup { InstallerNew(None, {}) }
    /\ source_file_path = << >>
    /\ lang = NoResult
    /\ result = NoResult
    /\ params = [save_default_if_missing |-> FALSE, install_lang_if_missing |-> TRUE]
    /\ attempts = << >>
    /\ diff_tree = NoResult
    /\ diffs = << >>
    /\ graph = GraphNew
    /\ dfs = TreeIteratorNew(TreeNew(<< 0 >>, 0))
    /\ di = 0
    /\ c = 0
    /\ visited = << >>
    /\ returned = << >>
    /\ emitted = << >>
    /\ source = << >>
    /\ tr = TranslatorNew(<< >>)
    /\ hunk = [source_start |-> 0]
    /\ line = NoLine
    /\ src_no = 1
    /\ tgt_no = 1
    /\ hunkLines = << >>
    /\ hunkBase = 0
    /\ nEntries = 0
    /\ nHunks = 0
    /\ ordered = TRUE

\* the next catalog entry: its path, the test of exists(), the clone, and the
\* `?` that returns an error
InstallEntry ==
    /\ pc = "install_for"
    /\ inst.i < Len(catalog)
    /\ \E outcome \in CloneOutcomes :
         inst' = InstallStep(inst, catalog[inst.i + 1], outcome)
    /\ IF inst'.result = NoResult
       THEN pc' = "install_for" /\ result' = result
       ELSE pc' = "done" /\ result' = inst'.result
    /\ UNCHANGED << catalog, ts_config, loader, diffs, gvars, tvars, rvars, lvars >>

\* the catalog is walked: Ok(())
InstallReturn ==
    /\ pc = "install_for"
    /\ inst.i = Len(catalog)
    /\ inst' = [inst EXCEPT !.result = Ok("()")]
    /\ result' = Ok("()")
    /\ pc' = "done"
    /\ UNCHANGED << catalog, ts_config, loader, diffs, gvars, tvars, rvars, lvars >>

NextInstall ==
    \/ InstallEntry
    \/ InstallReturn

SpecInstall == InitInstall /\ [][NextInstall]_vars

\* ------------------- SpecRun: DiffGraph::create over the files of a patch
RECURSIVE ParseHunkLines(_, _, _)
\* the lines of a hunk numbered as unidiff parses them from (type, text) pairs
ParseHunkLines(raw, s_no, t_no) ==
    IF raw = << >> THEN << >>
    ELSE LET l == ParsedLine(raw[1][1], raw[1][2], s_no, t_no)
         IN  << l >> \o ParseHunkLines(Tail(raw),
                           IF IsSome(l.source_line_no) THEN s_no + 1 ELSE s_no,
                           IF IsSome(l.target_line_no) THEN t_no + 1 ELSE t_no)

\* unidiff::Hunk
ParseHunk(source_start, raw) ==
    [source_start |-> source_start, lines |-> ParseHunkLines(raw, source_start, source_start)]

\* the hunks of the sampled patched files: a context-only hunk; a changed
\* line; a removed line past the end of every sampled file; a hunk that
\* begins with a removed line; a context line built without numbers; two
\* removed lines
SamplePatchFiles ==
    { << ParseHunk(1, << << LINE_TYPE_CONTEXT, ShortText >> >>) >>,
      << ParseHunk(1, << << LINE_TYPE_CONTEXT, ShortText >>,
                         << LINE_TYPE_REMOVED, ShortText >>,
                         << LINE_TYPE_REMOVED, ShortText >> >>) >>,
      << ParseHunk(1, << << LINE_TYPE_CONTEXT, ShortText >>,
                         << LINE_TYPE_REMOVED, ShortText >>,
                         << LINE_TYPE_ADDED, << "b", "2" >> >> >>) >>,
      << ParseHunk(1, << << LINE_TYPE_CONTEXT, ShortText >> >>),
         ParseHunk(MaxLines + 1, << << LINE_TYPE_CONTEXT, ShortText >>,
                                    << LINE_TYPE_REMOVED, ShortText >> >>) >>,
      << ParseHunk(1, << << LINE_TYPE_REMOVED, ShortText >> >>) >>,
      << [source_start |-> 1, lines |-> << NewLine(LINE_TYPE_CONTEXT, ShortText) >>] >> }

\* what try_load_file_from finds in SpecRun: no file, or its contents
SampleRunFiles == { None, Some(ExampleSource), Some(JoinLines(<< ShortText, LongText >>)),
                    Some(JoinLines(<< ShortText, LongText, ShortText, ShortText >>)) }

\* the plain file of a sampled patch: a context-only hunk on a Rust file of
\* four lines
PlainFile ==
    [hunks |-> << ParseHunk(1, << << LINE_TYPE_CONTEXT, ShortText >> >>) >>,
     loaded |-> Some(JoinLines(<< ShortText, LongText, ShortText, ShortText >>)),
     patch_file_path |-> << << "a" >>, << "main", ".", "rs" >> >>]

\* the files of the sampled patches: the plain file, and those that differ
\* from it in their hunks, or in what is on disk, or in their path
SampleRunInputs ==
    { f \in [hunks : SamplePatchFiles, loaded : SampleRunFiles,
             patch_file_path : SampleRunPaths] :
        Cardinality({ k \in { "hunks", "loaded", "patch_file_path" } : f[k] # PlainFile[k] }) <= 1 }

RECURSIVE TranslateLines(_, _)
\* `for line in hunk.lines()`, left at the first line that fails
TranslateLines(t, lines) ==
    IF lines = << >> \/ t.status # "running" THEN t
    ELSE TranslateLines(LineStep(t, Head(lines)), Tail(lines))

RECURSIVE TranslateHunks(_, _)
\* `for hunk in patch_file.hunks()`
TranslateHunks(t, hunks) ==
    IF hunks = << >> \/ t.status # "running" THEN t
    ELSE TranslateHunks(TranslateLines(HunkStart(t, Head(hunks).source_start), Head(hunks).lines),
                        Tail(hunks))

\* Diff::from_patch_file as one call, up to the end of the hunk loop: the
\* error returned on the way, or the edits
TranslateFile(hunks, loaded) ==
    IF ~IsSome(loaded) THEN Err("does not exist")
    ELSE LET t == TranslateHunks(TranslatorNew(Unwrap(loaded)), hunks)
         IN  IF t.status # "running" THEN StatusResult(t.status)
             ELSE [kind |-> "Translated", source |-> Unwrap(loaded), edits |-> t.edits]

RECURSIVE Traverse(_, _, _)
\* `while dfs.next().is_some()` on the tree of the d-th Diff
Traverse(g, d, it) ==
    LET r == DfsStep(g, d, it)
    IN  IF IsSome(r.ret) THEN Traverse(r.graph, d, r.it) ELSE g

RECURSIVE FoldDiffs(_, _, _)
\* `for d in diffs` from the d-th Diff on
FoldDiffs(g, ds, d) ==
    IF d >= Len(ds) THEN g
    ELSE FoldDiffs(Traverse(g, d, TreeIteratorNew(ds[d + 1].tree)), ds, d + 1)

\* DiffGraph::create_graph_from_diffs as one call
CreateGraphFromDiffs(ds) == Ok(FoldDiffs(GraphNew, ds, 0))

RECURSIVE ApplyEdits(_, _)
\* `for edit in self.edits.iter() { tree.edit(edit); }`
ApplyEdits(tree, edits) ==
    IF edits = << >> THEN tree
    ELSE ApplyEdits(TreeEdit(tree, Head(edits)), Tail(edits))

\* TryApplyEdits, were the edits applied to the tree of the Diff itself
TryApplyEditsInPlace(diff) ==
    [self |-> [diff EXCEPT !.tree = ApplyEdits(diff.tree, diff.edits)],
     ret |-> Ok(ApplyEdits(diff.tree, diff.edits))]

\* Diff::try_apply_edits(&mut self): the Diff after the call, and the edited
\* clone of its tree the call returns
TryApplyEdits(diff) ==
    [self |-> diff, ret |-> Ok(ApplyEdits(diff.tree, diff.edits))]

\* FileOutcome, were a file that failed to be skipped and the loop to go on
FileOutcomeSkips(ds, r) ==
    IF r.kind = "Ok"
    THEN [pc |-> "run_files", diffs |-> Append(ds, TryApplyEdits(r.value).self),
          result |-> NoResult, diff_tree |-> TryApplyEdits(r.value).ret]
    ELSE [pc |-> "run_files", diffs |-> ds, result |-> NoResult, diff_tree |-> NoResult]

\* the match on from_patch_file's result in try_parse_patch: on Ok, the `?`
\* on try_apply_edits binds _diff_tree and the Diff is pushed; on Err the
\* error is returned; a panic unwinds
FileOutcome(ds, r) ==
    IF r.kind # "Ok"
    THEN [pc |-> "done", diffs |-> ds, result |-> r, diff_tree |-> NoResult]
    ELSE IF TryApplyEdits(r.value).ret.kind # "Ok"
    THEN [pc |-> "done", diffs |-> ds, result |-> TryApplyEdits(r.value).ret,
          diff_tree |-> NoResult]
    ELSE [pc |-> "run_files", diffs |-> Append(ds, TryApplyEdits(r.value).self),
          result |-> NoResult, diff_tree |-> TryApplyEdits(r.value).ret]

\* what the disk holds before a run: the empty parsers directory, or the
\* parsers directory with the clones of three grammars
SampleRunFileSystems ==
    { { DefaultParsersDir },
      { DefaultParsersDir } \cup
        { Append(DefaultParsersDir, name) :
            name \in { << "tree-sitter-rust" >>, << "tree-sitter-make" >>,
                       << "tree-sitter-markdown" >> } } }

\* the parser directories of the tree-sitter configuration: the default
\* parsers directory, or directories that hold no grammar
SampleParserDirectories == { << DefaultParsersDir >>, << >> }

InitRun ==
    /\ pc = "run_load"
    /\ params \in [save_default_if_missing : BOOLEAN, install_lang_if_missing : BOOLEAN]
    /\ attempts = << >>
    /\ diff_tree = NoResult
    /\ catalog = << >>
    /\ ts_config = << >>
    /\ loader = {}
    /\ inst \in { InstallerNew(Some(DefaultParsersDir), fs) : fs \in SampleRunFileSystems }
    /\ source_file_path = << >>
    /\ lang = NoResult
    /\ diffs = << >>
    /\ result = NoResult
    /\ graph = GraphNew
    /\ dfs = TreeIteratorNew(TreeNew(<< 0 >>, 0))
    /\ di = 0
    /\ c = 0
    /\ visited = << >>
    /\ returned = << >>
    /\ emitted = << >>
    /\ source = << >>
    /\ tr = TranslatorNew(<< >>)
    /\ hunk = [source_start |-> 0]
    /\ line = NoLine
    /\ src_no = 1
    /\ tgt_no = 1
    /\ hunkLines = << >>
    /\ hunkBase = 0
    /\ nEntries = 0
    /\ nHunks = 0
    /\ ordered = TRUE

\* the catalogs Grammars::load reads from parsers.json in SpecRun
SampleRunCatalogs == { << UrlRust >>, << UrlRust, UrlMarkdownIkatyang >>, << UrlNoScheme >> }

\* Grammars::load returns the grammars, with the catalog of parsers.json, or
\* a configuration error
RunLoadGrammars ==
    /\ pc = "run_load"
    /\ \E loaded \in BOOLEAN, parser_directories \in SampleParserDirectories :
         IF loaded
         THEN /\ pc' = IF params.install_lang_if_missing THEN "run_install" ELSE "run_files"
              /\ result' = result
              /\ catalog' \in SampleRunCatalogs
              /\ ts_config' = parser_directories
              /\ loader' = FindAllLanguages(parser_directories, inst.fs)
         ELSE /\ pc' = "done"
              /\ result' = Err("configuration error")
              /\ catalog' = catalog
              /\ ts_config' = ts_config
              /\ loader' = loader
    /\ UNCHANGED << diffs, gvars, tvars, rvars, inst, lvars >>

RECURSIVE TryInstallLanguages(_, _, _)
\* try_install_languages as one call; outcomes[k] is what the clone of entry
\* k comes to if it is run
TryInstallLanguages(st, parsers, outcomes) ==
    IF st.result # NoResult THEN st
    ELSE IF st.i = Len(parsers) THEN [st EXCEPT !.result = Ok("()")]
    ELSE TryInstallLanguages(InstallStep(st, parsers[st.i + 1], outcomes[st.i + 1]),
                             parsers, outcomes)

\* InstallOutcome, were the result of try_install_languages to be dropped
InstallOutcomeDropped(st) == [pc |-> "run_files", result |-> NoResult]

\* the `?` on grammars.try_install_languages(): go on to the files, or
\* return the error; a panic unwinds
InstallOutcome(st) ==
    IF st.result.kind = "Ok"
    THEN [pc |-> "run_files", result |-> NoResult]
    ELSE [pc |-> "done", result |-> st.result]

\* grammars.try_install_languages()? when install_lang_if_missing is set
RunInstallLanguages ==
    /\ pc = "run_install"
    /\ \E outcomes \in [1..Len(catalog) -> CloneOutcomes] :
         inst' = TryInstallLanguages(inst, catalog, outcomes)
    /\ pc' = InstallOutcome(inst').pc
    /\ result' = InstallOutcome(inst').result
    /\ UNCHANGED << diffs, gvars, tvars, rvars, catalog, ts_config, loader, lvars >>

\* the loop of try_parse_patch takes r from from_patch_file
FileReturns(r) ==
    LET o == FileOutcome(diffs, r)
    IN  /\ attempts' = Append(attempts, r)
        /\ pc' = o.pc
        /\ diffs' = o.diffs
        /\ result' = o.result
        /\ diff_tree' = o.diff_tree

\* one iteration of `for patch_file in patch.files()`
RunFile ==
    /\ pc = "run_files"
    /\ Len(attempts) < MaxFiles
    /\ \E f \in SampleRunInputs :
         LET t == TranslateFile(f.hunks, f.loaded)
         IN  /\ source_file_path' = GetFsFilePath(f.patch_file_path)
             /\ IF t.kind # "Translated"
                THEN /\ lang' = NoResult
                     /\ FileReturns(t)
                ELSE /\ lang' = TryGetLanguage(source_file_path')
                     /\ \E parse_outcome \in ParserOutcomes, tree \in FileTrees :
                          /\ parse_outcome # "tree" => tree = << 0 >>
                          /\ FileReturns(BuildDiff(t.source, t.edits,
                                                   FinishOutcome(lang', parse_outcome), tree))
    /\ UNCHANGED << gvars, tvars, params, ivars >>

\* the patch has no more files: try_parse_patch returns Ok(diffs) and
\* DiffGraph::create builds the graph from them
RunCreateGraph ==
    /\ pc = "run_files"
    /\ graph' = CreateGraphFromDiffs(diffs).value
    /\ result' = Ok([graph |-> graph', diffs |-> diffs])
    /\ pc' = "done"
    /\ UNCHANGED << diffs, dfs, di, c, visited, emitted, returned, tvars, rvars, ivars, lvars >>

NextRun ==
    \/ RunLoadGrammars
    \/ RunInstallLanguages
    \/ RunFile
    \/ RunCreateGraph

SpecRun == InitRun /\ [][NextRun]_vars

\* ======================================================= claims under Spec
\* the lines of the source file, and the byte offset at which line n starts
\* when every line before it is followed by one newline
SourceLines == StrLines(source)
RECURSIVE LineOffset(_)
LineOffset(n) == IF n <= 1 THEN 0 ELSE LineOffset(n - 1) + StrLen(SourceLines[n - 1]) + 1

\* the diff line matched last is a removed line that was translated
RemovedTranslated ==
    /\ pc = "lines"
    /\ nEntries >= 1
    /\ line.line_type = LINE_TYPE_REMOVED
    /\ IsSome(line.source_line_no)

LastEdit == tr.edits[Len(tr.edits)]

\* the hunk of the end-to-end example: context 1, removed 2 "b", added 2 "b2", context 3
ExampleHunkLines ==
    << ParsedLine(LINE_TYPE_CONTEXT, << "a" >>, 1, 1),
       ParsedLine(LINE_TYPE_REMOVED, << "b" >>, 2, 2),
       ParsedLine(LINE_TYPE_ADDED, << "b", "2" >>, 3, 2),
       ParsedLine(LINE_TYPE_CONTEXT, << "c" >>, 3, 3) >>

ExampleTranslated ==
    /\ pc = "done"
    /\ result.kind = "Ok"
    /\ source = ExampleSource
    /\ nHunks = 1
    /\ hunk.source_start = 1
    /\ hunkLines = ExampleHunkLines

\* C1: translating the diff that changes line 2 of "a\nb\nc\n" from "b" to "b2"
\* yields exactly one EditRecord, with start_byte 2, old_end_byte 3,
\* new_end_byte 4 and start row 2.
C1_EndToEndExample ==
    ExampleTranslated =>
        /\ Len(result.value.edits) = 1
        /\ result.value.edits[1].start_byte = 2
        /\ result.value.edits[1].old_end_byte = 3
        /\ result.value.edits[1].new_end_byte = 4
        /\ result.value.edits[1].start_position.row = 2

\* a step that matches an added line, which carries no source line number
AddedLineStep ==
    /\ pc = "lines"
    /\ nEntries' = nEntries + 1
    /\ line'.line_type = LINE_TYPE_ADDED
    /\ ~IsSome(line'.source_line_no)

\* C3: every added diff line makes the translator push exactly one EditRecord,
\* with an empty old range and a new range of the byte length of the added text.
C3_AddedEntryEmitsRecord ==
    [][AddedLineStep =>
         /\ Len(tr'.edits) = Len(tr.edits) + 1
         /\ tr'.edits[Len(tr'.edits)].old_end_byte = tr'.edits[Len(tr'.edits)].start_byte
         /\ tr'.edits[Len(tr'.edits)].new_end_byte - tr'.edits[Len(tr'.edits)].start_byte
              = StrLen(line'.value)]_vars

\* C4: the EditRecord pushed for a removed line with source line number n has
\* old_end_byte - start_byte equal to the byte length of line n of the source.
C4_ByteLengthCorrect ==
    RemovedTranslated =>
        /\ Unwrap(line.source_line_no) <= Len(SourceLines)
        /\ LastEdit.old_end_byte - LastEdit.start_byte
             = StrLen(SourceLines[Unwrap(line.source_line_no)])

\* C5: the byte offset looked up for line n is the sum, over the lines before
\* n, of the line's byte length plus one newline.
C5_MonotonicCaching ==
    RemovedTranslated => LastEdit.start_byte = LineOffset(Unwrap(line.source_line_no))

\* the lines of the current hunk that push an EditRecord when translated
ChangedLines ==
    { i \in 1..Len(hunkLines) :
        /\ hunkLines[i].line_type \in {LINE_TYPE_ADDED, LINE_TYPE_REMOVED}
        /\ IsSome(hunkLines[i].source_line_no) }

\* every line of the current hunk so far is a context line with a source line number
ContextOnlyHunk ==
    /\ nHunks >= 1
    /\ hunkLines # << >>
    /\ \A i \in 1..Len(hunkLines) :
         /\ hunkLines[i].line_type = LINE_TYPE_CONTEXT
         /\ IsSome(hunkLines[i].source_line_no)

\* C6: a hunk of context lines only adds no EditRecord and leaves
\* last_source_context_line at the source line number of its final line; in any
\* hunk the records pushed are those of its added/removed lines that carry a
\* source line number, so a context line never pushes one.
C6_ContextOnlyHunk ==
    tr.status = "running" =>
        /\ Len(tr.edits) - hunkBase = Cardinality(ChangedLines)
        /\ ContextOnlyHunk =>
             /\ Len(tr.edits) = hunkBase
             /\ tr.last_source_context_line
                  = Unwrap(hunkLines[Len(hunkLines)].source_line_no)

\* a second hunk of two context lines ends after a first hunk pushed a record
C6_Witness ==
    /\ pc = "hunks"
    /\ nHunks = 2
    /\ hunkBase >= 1
    /\ Len(hunkLines) = 2
    /\ ContextOnlyHunk

\* C7: every EditRecord of the edit list, and of a returned Diff, has
\* start_byte <= old_end_byte and start_byte <= new_end_byte.
C7_EditRangesOrdered ==
    /\ \A i \in 1..Len(tr.edits) :
         /\ tr.edits[i].start_byte <= tr.edits[i].old_end_byte
         /\ tr.edits[i].start_byte <= tr.edits[i].new_end_byte
    /\ result.kind = "Ok" =>
         \A i \in 1..Len(result.value.edits) :
            /\ result.value.edits[i].start_byte <= result.value.edits[i].old_end_byte
            /\ result.value.edits[i].start_byte <= result.value.edits[i].new_end_byte

\* a Diff is returned with two records, one whose removed text is shorter than
\* the source line it replaces
C7_Witness ==
    /\ pc = "done"
    /\ result.kind = "Ok"
    /\ Len(result.value.edits) = 2
    /\ \E i \in 1..2 : result.value.edits[i].new_end_byte < result.value.edits[i].old_end_byte

\* the diff line matched last is a removed line naming a line past the end of the source
RemovedPastEnd ==
    /\ nEntries >= 1
    /\ line.line_type = LINE_TYPE_REMOVED
    /\ IsSome(line.source_line_no)
    /\ Unwrap(line.source_line_no) > Len(SourceLines)

\* C9: a removed line whose source line number exceeds the number of lines of
\* the source file ends the translation with the ran-out-of-lines error: no
\* Diff is returned.
C9_LineIndexExhausted ==
    RemovedPastEnd =>
        /\ pc = "done"
        /\ tr.status = "err_lines"
        /\ result = Err("Line counter could not iterate, ran out of lines")

\* the lines run out on a lookup made after an earlier one filled the cache
C9_Witness ==
    /\ RemovedPastEnd
    /\ pc = "done"
    /\ Len(tr.edits) >= 1
    /\ Len(SourceLines) >= 2

\* a step that matches a context line
ContextLineMatched ==
    /\ pc = "lines"
    /\ nEntries' = nEntries + 1
    /\ line'.line_type = LINE_TYPE_CONTEXT

\* C10: a context line without a source line number ends the translation with
\* an error at that line, leaving the locals as they were and returning no
\* Diff; a context line with a source line number only sets
\* last_source_context_line to it.
C10_ContextLine ==
    [][ContextLineMatched =>
         IF IsSome(line'.source_line_no)
         THEN /\ tr' = [tr EXCEPT !.last_source_context_line = Unwrap(line'.source_line_no)]
              /\ pc' = "lines"
              /\ result' = result
         ELSE /\ tr'.edits = tr.edits /\ tr'.lbc = tr.lbc
              /\ tr'.last_source_context_line = tr.last_source_context_line
              /\ pc' = "done"
              /\ result' = Err("Context line in patch requires source line")]_vars

\* a context line without a number stopped a translation that had pushed a record
C10_Witness ==
    /\ pc = "done"
    /\ line.line_type = LINE_TYPE_CONTEXT
    /\ ~IsSome(line.source_line_no)
    /\ hunkLines[Len(hunkLines)] = line
    /\ Len(tr.edits) >= 1
    /\ result.kind = "Err"

\* a step that matches a removed line whose source line an earlier lookup
\* has put into the cache
CachedLineRemoved ==
    /\ pc = "lines"
    /\ nEntries' = nEntries + 1
    /\ line'.line_type = LINE_TYPE_REMOVED
    /\ IsSome(line'.source_line_no)
    /\ Unwrap(line'.source_line_no) >= 1
    /\ Unwrap(line'.source_line_no) <= Len(tr.lbc.cache)

\* C14: for a removed line whose source line n is in the cache already, the
\* translator leaves the line iterator where it is, and the record it pushes
\* starts at the byte offset of line n and spans the byte length of line n.
C14_CachedLineReused ==
    [][CachedLineRemoved =>
         /\ tr'.lbc = tr.lbc
         /\ tr'.status = "running" =>
              /\ Len(tr'.edits) = Len(tr.edits) + 1
              /\ tr'.edits[Len(tr'.edits)].start_byte = LineOffset(Unwrap(line'.source_line_no))
              /\ tr'.edits[Len(tr'.edits)].old_end_byte - tr'.edits[Len(tr'.edits)].start_byte
                   = StrLen(SourceLines[Unwrap(line'.source_line_no)])]_vars

\* C18: the assertion source_line_no - 1 == last_source_context_line never
\* fails on a removed line of a hunk whose source line numbers run on from
\* its source_start, a hunk that begins with a removed line included: no
\* translation ends in the panic of assert_eq!.
C18_AssertionHolds ==
    /\ tr.status # "panic_assert"
    /\ result # Panic

\* the source line numbers named so far increase from hunk to hunk, and the
\* highest, that of the line matched last, is a line of the source file
NamedLinesExist ==
    /\ ordered
    /\ nEntries >= 1
    /\ IsSome(line.source_line_no)
    /\ Unwrap(line.source_line_no) <= Len(SourceLines)

\* C19: a translation whose diff names, in increasing order, only lines the
\* source file has does not fail with the ran-out-of-lines error, also when
\* the last lines of the file are removed.
C19_NoSpuriousExhaustion ==
    NamedLinesExist =>
        /\ tr.status # "err_lines"
        /\ result # Err("Line counter could not iterate, ran out of lines")

\* ================================================== claims under SpecGraph
RECURSIVE PreOrder(_, _)
RECURSIVE PreOrderChildren(_, _, _)
\* the depth-first pre-order of the subtree of node n
PreOrder(p, n) == << n >> \o PreOrderChildren(p, n, n + 1)
\* the pre-orders, one after the other, of the children of n numbered i or more
PreOrderChildren(p, n, i) ==
    IF i > Len(p) THEN << >>
    ELSE IF p[i] = n THEN PreOrder(p, i) \o PreOrderChildren(p, n, i + 1)
    ELSE PreOrderChildren(p, n, i + 1)

\* the edges of the graph between nodes of the tree of the d-th Diff
TreeEdges(d, p) ==
    { k \in DOMAIN graph.edges : \E n \in 1..Len(p) : k[1] = NodeId(d, n) }

\* the pre-order path of the tree of the d-th Diff
PreOrderPath(d, p) ==
    { << NodeId(d, PreOrder(p, 1)[i]), NodeId(d, PreOrder(p, 1)[i + 1]) >> : i \in 1..(Len(p) - 1) }

\* C2: once the TreeIterator of a tree with N nodes is exhausted, N nodes
\* were visited and the graph holds N - 1 edges of that tree, the pre-order path.
C2_TraversalGraphShape ==
    (pc = "graph_for" /\ di >= 1) =>
        /\ c = Len(diffs[di].tree.nodes)
        /\ Cardinality(TreeEdges(di - 1, diffs[di].tree.nodes)) = Len(diffs[di].tree.nodes) - 1
        /\ TreeEdges(di - 1, diffs[di].tree.nodes) = PreOrderPath(di - 1, diffs[di].tree.nodes)

\* C13: every (from, to) pair handed to relation_cb joins a node to the node
\* that follows it in the depth-first pre-order of its tree: its first child,
\* else the next sibling of the nearest of the node and its ancestors that
\* has one; no pair has another target.
C13_EdgesFollowPreOrder ==
    \A k \in 1..Len(emitted) :
       \E d \in 1..Len(diffs) :
          \E i \in 1..(Len(diffs[d].tree.nodes) - 1) :
             emitted[k] = << NodeId(d - 1, PreOrder(diffs[d].tree.nodes, 1)[i]),
                             NodeId(d - 1, PreOrder(diffs[d].tree.nodes, 1)[i + 1]) >>

\* the ids of the nodes of the tree of the d-th Diff (counted from 1)
TreeNodeIds(d) == { NodeId(d - 1, n) : n \in 1..Len(diffs[d].tree.nodes) }

RECURSIVE SumOfTreeSizes(_)
\* N1 + ... + Nd
SumOfTreeSizes(d) == IF d = 0 THEN 0 ELSE SumOfTreeSizes(d - 1) + Len(diffs[d].tree.nodes)

\* C15: when create_graph_from_diffs returns, the nodes of the graph are the
\* nodes of all the trees, each returned once by its TreeIterator, so that
\* the node count is N1 + ... + Nk; at any time the Edge stored under a key
\* (a, b) carries id a in `from` and id b in `to`, and a and b are nodes of
\* one tree.
C15_NodesOncePerTree ==
    /\ \A k \in DOMAIN graph.edges :
         /\ graph.edges[k].from.id = k[1]
         /\ graph.edges[k].to.id = k[2]
         /\ \E d \in 1..Len(diffs) : k[1] \in TreeNodeIds(d) /\ k[2] \in TreeNodeIds(d)
    /\ \A i, j \in 1..Len(visited) : i # j => visited[i] # visited[j]
    /\ { visited[i] : i \in 1..Len(visited) } \subseteq graph.nodes
    /\ pc = "done" =>
         /\ graph.nodes = UNION { TreeNodeIds(d) : d \in 1..Len(diffs) }
         /\ graph.nodes = { visited[i] : i \in 1..Len(visited) }
         /\ Cardinality(graph.nodes) = SumOfTreeSizes(Len(diffs))
         /\ result = Ok(graph)

\* two trees were folded into the graph, one of them with a node that has
\* two children
C15_Witness ==
    /\ pc = "done"
    /\ Len(diffs) = 2
    /\ \E d \in 1..2 : diffs[d].tree.nodes = << 0, 1, 1 >>
    /\ \E d \in 1..2 : Len(diffs[d].tree.nodes) = 2
    /\ Cardinality(graph.nodes) = 5

\* the edges of the graph that leave the node with this id
OutgoingEdges(id) == { k \in DOMAIN graph.edges : k[1] = id }

\* the last node of the tree of the d-th Diff (counted from 1) in pre-order
LastInPreOrder(d) ==
    PreOrder(diffs[d].tree.nodes, 1)[Len(diffs[d].tree.nodes)]

\* C21: every call of next that returns a node calls relation_cb once, with
\* that node as source, so every visited node has exactly one outgoing edge
\* in the graph; the last node of a traversed tree in pre-order has its edge
\* to the root, a self-loop on the root when the tree is a single node.
C21_OneEdgePerVisitedNode ==
    /\ Len(emitted) = Len(visited)
    /\ \A i \in 1..Len(visited) :
         /\ emitted[i][1] = visited[i]
         /\ emitted[i] \in DOMAIN graph.edges
         /\ Cardinality(OutgoingEdges(visited[i])) = 1
    /\ \A d \in 1..Len(diffs) :
         d <= di =>
           /\ OutgoingEdges(NodeId(d - 1, LastInPreOrder(d)))
                = { << NodeId(d - 1, LastInPreOrder(d)), NodeId(d - 1, 1) >> }
           /\ Len(diffs[d].tree.nodes) = 1
                => << NodeId(d - 1, 1), NodeId(d - 1, 1) >> \in DOMAIN graph.edges

\* a single-node tree and a tree whose last node is a grandchild of the root
\* were folded into the graph
C21_Witness ==
    /\ pc = "done"
    /\ Len(diffs) = 2
    /\ diffs[1].tree.nodes = << 0 >>
    /\ diffs[2].tree.nodes = << 0, 1, 2 >>
    /\ << NodeId(0, 1), NodeId(0, 1) >> \in DOMAIN graph.edges
    /\ << NodeId(1, 3), NodeId(1, 1) >> \in DOMAIN graph.edges
    /\ Len(emitted) = 4

\* ================================================== claims under SpecIter
\* the tree the TreeIterator of SpecIter walks, and its nodes in pre-order
IterTree == diffs[1].tree.nodes
IterPreOrder == PreOrder(IterTree, 1)

\* calls of next made after the one that returned the last node
IdleCalls == Len(returned) - Len(IterTree)

\* C22: on a tree of N nodes the first N calls of next return the nodes in
\* depth-first pre-order, each once, and every call after them returns None,
\* calls relation_cb no more and leaves the cursor on the root.
C22_PreOrderThenNone ==
    /\ \A i \in 1..Len(returned) :
         returned[i] = IF i <= Len(IterTree) THEN Some(IterPreOrder[i]) ELSE None
    /\ \A n \in 1..Len(IterTree) : \E i \in 1..Len(IterTree) : IterPreOrder[i] = n
    /\ Len(visited) = c
    /\ Len(emitted) = c
    /\ c = IF IdleCalls > 0 THEN Len(IterTree) ELSE Len(returned)
    /\ IdleCalls > 0 =>
         /\ dfs.traversed
         /\ dfs.walker = 1
         /\ Cardinality(DOMAIN graph.edges) = Len(IterTree)

\* a tree whose root has two children, the first of them with a child of
\* its own, was walked and next called MaxIdleCalls times more
C22_Witness ==
    /\ IterTree = << 0, 1, 1, 2 >>
    /\ IdleCalls = MaxIdleCalls
    /\ returned = << Some(1), Some(2), Some(4), Some(3) >> \o [i \in 1..MaxIdleCalls |-> None]
    /\ dfs.walker = 1

\* ================================================ claims under SpecInstall
\* a step that walks one catalog entry
InstallEntryStep == pc = "install_for" /\ inst'.i # inst.i

\* the clone attempted last
LastClone == inst.clones[Len(inst.clones)]

\* C11: try_install_languages takes the catalog entries in order; for the
\* entry it takes it runs a clone, of that entry's URL into that entry's path,
\* exactly when the path does not exist, and none when it exists; no entry is
\* taken after a clone that failed, and a clone that fails ends the call with
\* that clone's error.
C11_InstallFailFast ==
    [][InstallEntryStep =>
         LET parser_url == catalog[inst.i + 1]
             repo_path == TryGetParserRepoPath(inst.parsers_dir, parser_url)
             cloned == Len(inst'.clones) = Len(inst.clones) + 1
         IN  /\ inst'.i = inst.i + 1
             /\ \A k \in 1..Len(inst.clones) : inst.clones[k].outcome = "ok"
             /\ SubSeq(inst'.clones, 1, Len(inst.clones)) = inst.clones
             /\ cloned \/ inst'.clones = inst.clones
             /\ cloned <=> (repo_path.kind = "Ok" /\ repo_path.value \notin inst.fs)
             /\ cloned =>
                  /\ inst'.clones[Len(inst'.clones)].entry = inst.i + 1
                  /\ inst'.clones[Len(inst'.clones)].url = parser_url
                  /\ inst'.clones[Len(inst'.clones)].dir = repo_path.value
                  /\ inst'.clones[Len(inst'.clones)].outcome \in { "stderr", "stdout" } =>
                       /\ pc' = "done"
                       /\ result' = CloneRepoInDir(inst'.clones[Len(inst'.clones)].outcome)
                       /\ result'.kind = "Err"
                  /\ inst'.clones[Len(inst'.clones)].outcome # "ok" => pc' = "done"]_vars

\* the first entry's path exists and is passed over, the clone of the second
\* fails and is returned, the third entry is never taken
C11_Witness ==
    /\ pc = "done"
    /\ result.kind = "Err"
    /\ Len(catalog) = 3
    /\ inst.i = 2
    /\ Len(inst.clones) = 1
    /\ LastClone.entry = 2
    /\ LastClone.outcome = "stderr"
    /\ result = Err("stderr of git clone")

\* the call began with nothing in the parsers directory: whatever the disk
\* holds now is the parsers directory or the directory of a clone made
EmptyParsersDirAtStart ==
    /\ IsSome(inst.parsers_dir)
    /\ \A path \in inst.fs :
         \/ path = DefaultParsersDir
         \/ \E k \in 1..Len(inst.clones) :
              inst.clones[k].dir = path /\ inst.clones[k].outcome = "ok"

\* C17: when try_install_languages returns Ok from an empty parsers
\* directory, every catalog entry was cloned, into a directory of its own
\* right under the parsers directory: no two entries share a directory, no
\* entry is passed over, none is cloned into the parsers directory itself.
C17_OneDirPerEntry ==
    (pc = "done" /\ result = Ok("()") /\ EmptyParsersDirAtStart) =>
        /\ Len(inst.clones) = Len(catalog)
        /\ \A k \in 1..Len(inst.clones) :
             /\ inst.clones[k].entry = k
             /\ Len(inst.clones[k].dir) = Len(DefaultParsersDir) + 1
             /\ SubSeq(inst.clones[k].dir, 1, Len(DefaultParsersDir)) = DefaultParsersDir
        /\ \A j, k \in 1..Len(inst.clones) :
             j # k => inst.clones[j].dir # inst.clones[k].dir

\* ==================================================== claims under SpecRun
\* the last from_patch_file call failed
LastAttemptFailed == Len(attempts) >= 1 /\ attempts[Len(attempts)].kind # "Ok"

\* C8: no file is translated after one that failed (none again, none later);
\* the run ends there, returning that file's error and neither the Diffs
\* pushed so far nor a graph; a returned graph comes with the Diff of every file.
C8_FailFast ==
    /\ \A i \in 1..(Len(attempts) - 1) : attempts[i].kind = "Ok"
    /\ LastAttemptFailed =>
         /\ pc = "done"
         /\ result = attempts[Len(attempts)]
         /\ graph = GraphNew
    /\ result.kind = "Ok" =>
         /\ \A i \in 1..Len(attempts) : attempts[i].kind = "Ok"
         /\ result.value.diffs = [i \in 1..Len(attempts) |-> attempts[i].value]

\* the last file of a patch fails with an error after a Diff was pushed
C8_Witness ==
    /\ pc = "done"
    /\ Len(attempts) = MaxFiles
    /\ attempts[MaxFiles].kind = "Err"
    /\ Len(diffs) = MaxFiles - 1
    /\ Len(diffs) >= 1
    /\ result.kind = "Err"

\* try_install_languages was called and did not return Ok
InstallFailed == inst.result.kind \in { "Err", "Panic" }

\* C16: a grammar installation that fails ends try_parse_patch with its
\* error before any file is loaded, translated or parsed: no from_patch_file
\* call was made, no Diff pushed, no graph built; and with
\* install_lang_if_missing set, a file is only taken once the installation
\* has returned Ok.
C16_InstallBeforeFiles ==
    /\ InstallFailed =>
         /\ pc = "done"
         /\ result = inst.result
         /\ attempts = << >>
         /\ diffs = << >>
         /\ graph = GraphNew
    /\ (params.install_lang_if_missing /\ (attempts # << >> \/ pc = "run_files")) =>
         /\ inst.result = Ok("()")
         /\ inst.i = Len(catalog)

\* the clone of the first entry succeeded, that of the second failed, and the
\* run ended with the failure before any file
C16_Witness ==
    /\ pc = "done"
    /\ params.install_lang_if_missing
    /\ Len(inst.clones) = 2
    /\ inst.clones[1].outcome = "ok"
    /\ inst.clones[2].outcome = "stdout"
    /\ result = Err("Unable to execute git clone command")
    /\ attempts = << >>

\* a known file type is the name of the file, or what follows the last "."
\* of a name that has something before it
GrammarMatches(p) ==
    /\ p # << >>
    /\ \E ft \in loader :
         LET name == p[Len(p)]
         IN  \/ name = ft
             \/ /\ Len(name) > Len(ft) + 1
                /\ SubSeq(name, Len(name) - Len(ft) + 1, Len(name)) = ft
                /\ name[Len(name) - Len(ft)] = "."

\* the last from_patch_file call asked for the language of its file
LanguageAsked == lang # NoResult

\* C12: for a file whose path no grammar matches, try_get_language returns
\* Ok(None), not an error; from_patch_file then returns an error for the
\* file, and the run ends with that error: no Diff of the file, no graph.
C12_NoLanguageIsFatal ==
    /\ (LanguageAsked /\ ~GrammarMatches(source_file_path)) => lang = Ok(None)
    /\ (LanguageAsked /\ lang = Ok(None)) =>
         /\ pc = "done"
         /\ result = Err("Unable to determine language")
         /\ attempts[Len(attempts)] = result
         /\ Len(diffs) = Len(attempts) - 1
         /\ graph = GraphNew

\* a first file gave a Diff, the second is a text file no grammar matches
C12_Witness ==
    /\ pc = "done"
    /\ Len(attempts) = 2
    /\ Len(diffs) = 1
    /\ source_file_path = << << "notes", ".", "txt" >> >>
    /\ lang = Ok(None)
    /\ result.kind = "Err"

\* the tree of a Diff is as parser.parse returned it: never edited, its
\* root ending where the source of the Diff ends
AsParsed(diff) ==
    /\ diff.tree.edited = << >>
    /\ diff.tree.end_byte = StrLen(diff.source)

\* the last from_patch_file call returned a Diff, try_apply_edits ran on it
EditsApplied == diff_tree # NoResult

\* C20: try_apply_edits applies every EditRecord once, in recorded order, to
\* a clone of the tree of the Diff; the Diff pushed keeps the tree and the
\* edits from_patch_file returned; the edited clone is kept nowhere, and the
\* graph is built from the trees as parsed.
C20_EditsApplyToAClone ==
    /\ EditsApplied =>
         /\ diff_tree.kind = "Ok"
         /\ Len(diffs) = Len(attempts)
         /\ diff_tree.value.edited = attempts[Len(attempts)].value.edits
         /\ diff_tree.value.nodes = attempts[Len(attempts)].value.tree.nodes
    /\ \A i \in 1..Len(diffs) :
         /\ diffs[i] = attempts[i].value
         /\ AsParsed(diffs[i])
    /\ (pc = "done" /\ result.kind = "Ok") =>
         /\ result.value.diffs = diffs
         /\ \A i \in 1..Len(diffs) : AsParsed(result.value.diffs[i])
         /\ result.value.graph.nodes =
              UNION { { NodeId(d - 1, n) : n \in 1..Len(attempts[d].value.tree.nodes) }
                      : d \in 1..Len(attempts) }

\* the run made a graph of two files, and the two edits of the last one
\* took two bytes off the clone of its tree
C20_Witness ==
    /\ pc = "done"
    /\ result.kind = "Ok"
    /\ Len(diffs) = 2
    /\ EditsApplied
    /\ Len(diffs[2].edits) = 2
    /\ diff_tree.value.end_byte = diffs[2].tree.end_byte - 2
    /\ Len(diffs[2].tree.nodes) = MaxFileNodes

\* the directories try_install_languages cloned a grammar into in this run
ClonedDirs ==
    { inst.clones[i].dir : i \in { j \in 1..Len(inst.clones) : inst.clones[j].outcome = "ok" } }

\* the file types the grammars cloned in this run declare
ClonedFileTypes == UNION { GrammarFileTypes(d[Len(d)]) : d \in ClonedDirs }

\* Grammars::load has returned the grammars
GrammarsLoaded == pc # "run_load" /\ result # Err("configuration error")

\* C23: find_all_languages runs in Grammars::load, before anything is
\* cloned, and not again: the Loader knows the grammars that stood in the
\* parser directories before the run, none of those try_install_languages
\* cloned in it, and no file of the run gets the language of a cloned grammar.
C23_DiscoveryBeforeInstall ==
    /\ ~GrammarsLoaded => (inst.clones = << >> /\ attempts = << >> /\ loader = {})
    /\ GrammarsLoaded => loader = FindAllLanguages(ts_config, inst.fs \ ClonedDirs)
    /\ loader \cap ClonedFileTypes = {}
    /\ (lang.kind = "Ok" /\ IsSome(lang.value)) => Unwrap(lang.value) \notin ClonedFileTypes
    /\ (LanguageAsked /\ loader = {}) => lang = Ok(None)

\* the Rust grammar was cloned into the parser directory during the run, and
\* the Rust file of the patch got no language
C23_Witness ==
    /\ pc = "done"
    /\ ts_config = << DefaultParsersDir >>
    /\ Append(DefaultParsersDir, << "tree-sitter-rust" >>) \in ClonedDirs
    /\ ClonedFileTypes = { << "rs" >> }
    /\ FindAllLanguages(ts_config, inst.fs) = { << "rs" >> }
    /\ loader = {}
    /\ source_file_path = << << "main", ".", "rs" >> >>
    /\ lang = Ok(None)
    /\ result.kind = "Err"

====
